---------------------------- MODULE Spec2Model ----------------------------
(***************************************************************************)
(* Model of the posts API: the contract (post.router.ts, response.ts), the *)
(* NestJS controller bound to it with tsRestHandler and the in-memory      *)
(* PostService (post.controller.ts); and the web application's local list  *)
(* of posts with its add, edit, delete and filter controls (App.tsx).      *)
(*                                                                         *)
(* Text is a sequence of one-character strings, so that trimming and the   *)
(* numeric coercion of the path parameter are computed, not assumed.       *)
(* One request is served per step: the service methods are synchronous,    *)
(* so a handler's access to the store is a single uninterrupted block.     *)
(***************************************************************************)
EXTENDS Integers, Sequences, FiniteSets, TLC

VARIABLES
  posts,    \* PostService.posts
  req,      \* the request served last
  res,      \* the response sent to it: HTTP status and JSON body
  via,      \* how that response came about: returned by the handler
            \* ("handler"), an exception thrown by it ("exception"), or the
            \* binding's request validation ("validation")
  invoked,  \* the PostService methods called while serving it
  created,  \* the data of every 201 response so far, in order
  tasks,    \* the requests being served at once, each at its step
  webPosts,     \* App.tsx: the posts state of the web application
  editingId,    \* App.tsx: the id of the post being edited, or null
  editTitle,    \* App.tsx: the edit form's title
  editBody,     \* App.tsx: the edit form's content
  editCategory, \* App.tsx: the edit form's category
  filter,       \* App.tsx: the category selected for display
  event,        \* the control of the web application used last
  clicks        \* the number of controls used so far

\* the state of the server
api == <<posts, req, res, via, invoked, created, tasks>>

\* the state of the web application
web == <<webPosts, editingId, editTitle, editBody, editCategory, filter,
         event, clicks>>

vars == <<api, web>>

---------------------------------------------------------------------------
(* Bounds *)

\* the store is not grown beyond this many posts
MaxPosts == 4
\* the number of requests served at once
MaxTasks == 2
\* the number of controls of the web application used in a row
MaxClicks == 7

---------------------------------------------------------------------------
(* Text *)

Space == " "

\* the title and body texts clients send: empty, white space only, plain,
\* with leading and / or trailing white space, with inner white space
Texts ==
  { <<>>, <<Space>>, <<Space, Space>>, <<"a">>, <<Space, "a">>, <<"a", Space>>,
    <<Space, "a", Space>>, <<"a", Space, "b">> }

RECURSIVE trimStart(_)
trimStart(s) ==
  IF s # <<>> /\ Head(s) = Space THEN trimStart(Tail(s)) ELSE s

RECURSIVE trimEnd(_)
trimEnd(s) ==
  IF s # <<>> /\ s[Len(s)] = Space THEN trimEnd(SubSeq(s, 1, Len(s) - 1)) ELSE s

\* trim that forgets the trailing white space
trim_StartOnly(s) == trimStart(s)

\* String.prototype.trim, as applied by z.string().trim()
trim(s) == trimEnd(trimStart(s))

---------------------------------------------------------------------------
(* response.ts: the envelopes *)

INTERNAL_SERVER_ERROR(b) ==
  /\ DOMAIN b = {"status", "message"}
  /\ b.status = "INTERNAL_SERVER_ERROR"

BAD_REQUEST(b) ==
  /\ DOMAIN b = {"status", "message"}
  /\ b.status = "BAD_REQUEST"

NOT_FOUND(b) ==
  /\ DOMAIN b = {"status", "message"}
  /\ b.status = "NOT_FOUND"

CREATED(b) ==
  /\ DOMAIN b = {"status", "data"}
  /\ b.status = "CREATED"

SUCCESS(b) ==
  /\ DOMAIN b = {"status", "data"}
  /\ b.status = "OK"

---------------------------------------------------------------------------
(* post.router.ts: the schemas *)

\* a string field checked on its trimmed text but handed on as received
StringField_Untrimmed(payload, name, message) ==
  IF name \notin DOMAIN payload
  THEN [success |-> FALSE, data |-> <<>>,
        issues |-> << [path |-> <<name>>, message |-> "Required"] >>]
  ELSE IF Len(trim(payload[name])) >= 1
       THEN [success |-> TRUE, data |-> payload[name], issues |-> <<>>]
       ELSE [success |-> FALSE, data |-> <<>>,
             issues |-> << [path |-> <<name>>, message |-> message] >>]

\* a string field without its min(1) check
StringField_NoMin(payload, name, message) ==
  IF name \notin DOMAIN payload
  THEN [success |-> FALSE, data |-> <<>>,
        issues |-> << [path |-> <<name>>, message |-> "Required"] >>]
  ELSE [success |-> TRUE, data |-> trim(payload[name]), issues |-> <<>>]

\* one string field of PostSchema: z.string().trim().min(1, message)
StringField(payload, name, message) ==
  IF name \notin DOMAIN payload
  THEN [success |-> FALSE, data |-> <<>>,
        issues |-> << [path |-> <<name>>, message |-> "Required"] >>]
  ELSE LET t == trim(payload[name]) IN
       IF Len(t) >= 1
       THEN [success |-> TRUE, data |-> t, issues |-> <<>>]
       ELSE [success |-> FALSE, data |-> <<>>,
             issues |-> << [path |-> <<name>>, message |-> message] >>]

\* the creation schema with passthrough: keys it does not name are kept
CreateBody_Passthrough(payload) ==
  LET t == StringField(payload, "title", "Title is required")
      b == StringField(payload, "body", "Body is required")
  IN  IF t.success /\ b.success
      THEN [success |-> TRUE,
            data |-> [k \in DOMAIN payload |->
                        IF k = "title" THEN t.data
                        ELSE IF k = "body" THEN b.data ELSE payload[k]],
            issues |-> <<>>]
      ELSE [success |-> FALSE,
            data |-> [title |-> <<>>, body |-> <<>>],
            issues |-> t.issues \o b.issues]

\* the creation schema that stops at the first field that fails
CreateBody_FirstIssue(payload) ==
  LET t == StringField(payload, "title", "Title is required")
      b == StringField(payload, "body", "Body is required")
  IN  IF t.success /\ b.success
      THEN [success |-> TRUE,
            data |-> [title |-> t.data, body |-> b.data],
            issues |-> <<>>]
      ELSE [success |-> FALSE,
            data |-> [title |-> <<>>, body |-> <<>>],
            issues |-> IF t.issues # <<>> THEN t.issues ELSE b.issues]

\* PostSchema.omit({ id: true }): title and body are parsed, in the order
\* of the schema's keys; keys the schema does not name are stripped
CreateBody(payload) ==
  LET t == StringField(payload, "title", "Title is required")
      b == StringField(payload, "body", "Body is required")
  IN  IF t.success /\ b.success
      THEN [success |-> TRUE,
            data |-> [title |-> t.data, body |-> b.data],
            issues |-> <<>>]
      ELSE [success |-> FALSE,
            data |-> [title |-> <<>>, body |-> <<>>],
            issues |-> t.issues \o b.issues]

Digit == [c \in {"0", "1", "2", "3", "4", "5", "6", "7", "8", "9"} |->
            CASE c = "0" -> 0 [] c = "1" -> 1 [] c = "2" -> 2 [] c = "3" -> 3
              [] c = "4" -> 4 [] c = "5" -> 5 [] c = "6" -> 6 [] c = "7" -> 7
              [] c = "8" -> 8 [] c = "9" -> 9]

RECURSIVE DecimalValue(_)
DecimalValue(s) ==
  IF s = <<>> THEN 0
  ELSE 10 * DecimalValue(SubSeq(s, 1, Len(s) - 1)) + Digit[s[Len(s)]]

AllDigits(s) == \A i \in 1..Len(s) : s[i] \in DOMAIN Digit

NaN == [nan |-> TRUE, value |-> 0]

\* Number(text) on the texts of PathSegments: surrounding white space is
\* ignored, the empty text is 0, an optional sign precedes decimal digits,
\* and any other text is NaN
Number(text) ==
  LET s == trim(text) IN
  IF s = <<>> THEN [nan |-> FALSE, value |-> 0]
  ELSE LET signed == Head(s) \in {"-", "+"}
           d == IF signed THEN Tail(s) ELSE s
       IN  IF d # <<>> /\ AllDigits(d)
           THEN [nan |-> FALSE,
                 value |-> IF Head(s) = "-" THEN 0 - DecimalValue(d)
                                            ELSE DecimalValue(d)]
           ELSE NaN

\* pathParams of getPost: z.object({ id: z.coerce.number() }); z.number()
\* rejects NaN
PathParams(segment) ==
  LET n == Number(segment) IN
  IF n.nan
  THEN [success |-> FALSE, data |-> [id |-> 0],
        issues |-> << [path |-> <<"id">>,
                       message |-> "Expected number, received nan"] >>]
  ELSE [success |-> TRUE, data |-> [id |-> n.value], issues |-> <<>>]

\* PostSchema, as a check of a value: an object with a number id and with
\* string title and body of at least one character once trimmed
PostSchema(p) ==
  /\ {"id", "title", "body"} \subseteq DOMAIN p
  /\ p.id \in Int
  /\ Len(trim(p.title)) >= 1
  /\ Len(trim(p.body)) >= 1

\* the status codes each operation declares in its responses
Responses ==
  [createPost |-> {201, 400, 500},
   getPost    |-> {200, 404, 500},
   getPosts   |-> {200, 500}]

\* the schema each operation declares for a status, as a check of a body
ResponseSchema(op, status, b) ==
  CASE op = "createPost" /\ status = 201 -> CREATED(b) /\ PostSchema(b.data)
    [] op = "createPost" /\ status = 400 -> BAD_REQUEST(b)
    [] op = "getPost" /\ status = 200 -> SUCCESS(b) /\ PostSchema(b.data)
    [] op = "getPost" /\ status = 404 -> NOT_FOUND(b)
    [] op = "getPosts" /\ status = 200 ->
         SUCCESS(b) /\ \A i \in 1..Len(b.data) : PostSchema(b.data[i])
    [] op \in {"createPost", "getPost", "getPosts"} /\ status = 500 ->
         INTERNAL_SERVER_ERROR(b)
    [] OTHER -> FALSE

---------------------------------------------------------------------------
(* The route tree *)

PostsSegment == <<"p", "o", "s", "t", "s">>
IdParam == <<":", "i", "d">>

\* method and path of each operation of postContract; a path is the
\* sequence of its segments
postContract ==
  [createPost |-> [method |-> "POST", path |-> <<PostsSegment>>],
   getPost    |-> [method |-> "GET",  path |-> <<PostsSegment, IdParam>>],
   getPosts   |-> [method |-> "GET",  path |-> <<PostsSegment>>]]

\* "/api/v1"
PathPrefix == << <<"a", "p", "i">>, <<"v", "1">> >>

\* the route tree with the prefix left out
APIRoute_NoPrefix == postContract

\* router({ posts: postContract }, { pathPrefix }): the prefix goes before
\* the path of every operation
APIRoute ==
  [op \in DOMAIN postContract |->
     [method |-> postContract[op].method,
      path |-> PathPrefix \o postContract[op].path]]

\* a request path fits a path template: segment by segment, a parameter
\* taking any segment
Matches(template, path) ==
  /\ Len(template) = Len(path)
  /\ \A i \in 1..Len(template) : template[i] = IdParam \/ template[i] = path[i]

\* the operation bound to a method and path, "none" when there is none
Route(method, path) ==
  LET ops == { op \in DOMAIN APIRoute :
                 APIRoute[op].method = method /\ Matches(APIRoute[op].path, path) }
  IN  IF ops = {} THEN "none" ELSE CHOOSE op \in ops : TRUE

\* the path of an operation with the segment in place of :id
PathOf(op, segment) ==
  [i \in 1..Len(APIRoute[op].path) |->
     IF APIRoute[op].path[i] = IdParam THEN segment ELSE APIRoute[op].path[i]]

---------------------------------------------------------------------------
(* PostService *)

ThisIsTheContentOfThe ==
  <<"T", "h", "i", "s", " ", "i", "s", " ", "t", "h", "e", " ",
    "c", "o", "n", "t", "e", "n", "t", " ", "o", "f", " ", "t", "h", "e", " ">>

\* the initial value of PostService.posts
SeedPosts ==
  << [id |-> 1,
      title |-> <<"F", "i", "r", "s", "t", " ", "P", "o", "s", "t">>,
      body |-> ThisIsTheContentOfThe
               \o <<"f", "i", "r", "s", "t", " ", "p", "o", "s", "t", ".">>],
     [id |-> 2,
      title |-> <<"S", "e", "c", "o", "n", "d", " ", "P", "o", "s", "t">>,
      body |-> ThisIsTheContentOfThe
               \o <<"s", "e", "c", "o", "n", "d", " ", "p", "o", "s", "t", ".">>] >>

\* getAllPosts that leaves the first post out
PostService_getAllPosts_Slice(store) == Tail(store)

PostService_getAllPosts(store) == store

\* Array.prototype.findIndex: the first index whose post has the id, or -1
findIndex(store, id) ==
  IF \E i \in 1..Len(store) : store[i].id = id
  THEN CHOOSE i \in 1..Len(store) :
         /\ store[i].id = id
         /\ \A j \in 1..(i - 1) : store[j].id # id
  ELSE -1

Null == [null |-> TRUE]

\* getPostById that uses the id as the array index
PostService_getPostById_ByIndex(store, id) ==
  IF id \in 0..(Len(store) - 1) THEN store[id + 1] ELSE Null

PostService_getPostById(store, id) ==
  LET postIndex == findIndex(store, id) IN
  IF postIndex # -1 THEN store[postIndex] ELSE Null

\* posts.length, without the + 1
NewId_Length(store) == Len(store)

\* posts.length + 1
NewId(store) == Len(store) + 1

\* createPost with concat for push: the array held is left as it was
PostService_createPost_Concat(store, post) ==
  LET newPost == [k \in {"id"} \cup DOMAIN post |->
                    IF k \in DOMAIN post THEN post[k] ELSE NewId(store)]
  IN  [newPost |-> newPost, store |-> store]

\* createPost with unshift for push: the new post is put first
PostService_createPost_Unshift(store, post) ==
  LET newPost == [k \in {"id"} \cup DOMAIN post |->
                    IF k \in DOMAIN post THEN post[k] ELSE NewId(store)]
  IN  [newPost |-> newPost, store |-> <<newPost>> \o store]

\* { id: ..., ...post }: the keys of post are spread over the id
PostService_createPost(store, post) ==
  LET newPost == [k \in {"id"} \cup DOMAIN post |->
                    IF k \in DOMAIN post THEN post[k] ELSE NewId(store)]
  IN  [newPost |-> newPost, store |-> Append(store, newPost)]

---------------------------------------------------------------------------
(* The server binding and the framework around the handlers *)

\* what a service call made inside a try block comes to
Returned(v) == [threw |-> FALSE, value |-> v]
Thrown == [threw |-> TRUE, value |-> Null]

\* a thrown HttpException(message, code), as the framework answers it
HttpException(message, code) ==
  [status |-> code, body |-> [statusCode |-> code, message |-> message]]

\* tsRestHandler's answer to a request that fails the route's schemas: the
\* handler is not run and the parse results are the body of a 400
RequestValidationError(paramsIssues, bodyIssues) ==
  [status |-> 400,
   body |-> [paramsResult |-> paramsIssues, headersResult |-> <<>>,
             queryResult |-> <<>>, bodyResult |-> bodyIssues]]

---------------------------------------------------------------------------
(* PostController: the three handlers, given what the service call comes to *)

getAllPostsHandler(svc) ==
  IF svc.threw
  THEN HttpException("Internal Server Error", 500)
  ELSE [status |-> 200, body |-> [status |-> "OK", data |-> svc.value]]

\* the handler without its if (!post) branch
getPostByIdHandler_NoNullCheck(svc) ==
  IF svc.threw
  THEN HttpException("Internal Server Error", 500)
  ELSE [status |-> 200, body |-> [status |-> "OK", data |-> svc.value]]

getPostByIdHandler(svc) ==
  IF svc.threw
  THEN HttpException("Internal Server Error", 500)
  ELSE IF svc.value = Null
       THEN [status |-> 404,
             body |-> [status |-> "NOT_FOUND", message |-> "Post not found"]]
       ELSE [status |-> 200, body |-> [status |-> "OK", data |-> svc.value]]

createPostHandler(svc) ==
  IF svc.threw
  THEN HttpException("Internal Server Error", 500)
  ELSE [status |-> 201, body |-> [status |-> "CREATED", data |-> svc.value]]

---------------------------------------------------------------------------
(* The client binding *)

\* what a call through tsr comes to for a response: the client is made with
\* baseUrl and baseHeaders only, so any 2xx response is the call's data and
\* any other response its error, each as the {status, body} received
ClientResult(response) ==
  [kind |-> IF response.status \in 200..299 THEN "data" ELSE "error",
   status |-> response.status,
   body |-> response.body]

---------------------------------------------------------------------------
(* Requests *)

\* ids a client puts in a creation payload
ClientIds == {1, 9}

\* creation payloads: title and body, either one missing, or with an id
Payloads ==
  { [title |-> t, body |-> b] : t \in Texts, b \in Texts }
    \cup { [title |-> t] : t \in Texts }
    \cup { [body |-> b] : b \in Texts }
    \cup { [id |-> i, title |-> t, body |-> b] :
              i \in ClientIds, t \in Texts, b \in Texts }

NoPayload == [none |-> TRUE]

DigitChars == <<"0", "1", "2", "3", "4", "5", "6", "7", "8", "9">>

\* the decimal text of a natural number
RECURSIVE ToText(_)
ToText(n) ==
  IF n < 10 THEN <<DigitChars[n + 1]>>
  ELSE Append(ToText(n \div 10), DigitChars[(n % 10) + 1])

\* the :id path segments clients send
PathSegments ==
  { ToText(n) : n \in 0..(MaxPosts + 1) }
    \cup { <<"9", "9", "9">>, <<"0", "3">>, <<"-", "1">>, <<"+", "2">>,
           <<Space, "2">>, <<Space>>, <<"a", "b", "c">>, <<"2", "x">>, <<"x">> }

\* a request served by an operation; "none" is no operation
Request(op, segment, payload) ==
  [op |-> op, segment |-> segment, payload |-> payload,
   method |-> IF op \in DOMAIN APIRoute THEN APIRoute[op].method ELSE "",
   path |-> IF op \in DOMAIN APIRoute THEN PathOf(op, segment) ELSE <<>>]

---------------------------------------------------------------------------
(* App.tsx: the web application's local list of posts. A text is a         *)
(* sequence of pieces, so that the title of a new post is the pieces       *)
(* "New Post " and the decimal text of its number.                         *)

\* the sample posts the posts state starts with
InitialPosts ==
  << [id |-> 1,
      title |-> <<"Getting Started with React">>,
      body |-> <<"React is a JavaScript library for building user interfaces. It allows you to create reusable UI components and manage state efficiently. This post will guide you through the basics of React development.">>,
      category |-> "Development",
      date |-> "Apr 15, 2025"],
     [id |-> 2,
      title |-> <<"Tailwind CSS Fundamentals">>,
      body |-> <<"Tailwind CSS is a utility-first CSS framework that allows you to build custom designs without leaving your HTML. It provides low-level utility classes that let you build completely custom designs without ever leaving your HTML.">>,
      category |-> "Design",
      date |-> "Apr 12, 2025"],
     [id |-> 3,
      title |-> <<"JavaScript ES6 Features">>,
      body |-> <<"ES6 introduced many new features to JavaScript including arrow functions, template literals, destructuring, spread operators, and more. These features make your code more readable and maintainable.">>,
      category |-> "Development",
      date |-> "Apr 10, 2025"],
     [id |-> 4,
      title |-> <<"Building Responsive Layouts">>,
      body |-> <<"Creating responsive layouts ensures your application looks great on all devices. Learn how to use media queries, flexbox, and grid to create layouts that adapt to different screen sizes.">>,
      category |-> "Design",
      date |-> "Apr 8, 2025"],
     [id |-> 5,
      title |-> <<"State Management in React">>,
      body |-> <<"Managing state is crucial in React applications. From useState for component-level state to more complex solutions like Context API or Redux for global state, choosing the right approach is important for your app's performance and maintainability.">>,
      category |-> "Development",
      date |-> "Apr 5, 2025"] >>

\* useState(null): no post is being edited; an id being edited is <<id>>
null == <<>>

\* the post addPost makes for a list
newPost(list) ==
  [id |-> Len(list) + 1,
   title |-> <<"New Post ">> \o ToText(Len(list) + 1),
   body |-> <<"This is a newly added post. Click the edit button to change its content.">>,
   category |-> "General",
   date |-> "Apr 19, 2025"]

\* the options of the category select
categories(list) == {"All"} \cup { list[i].category : i \in 1..Len(list) }

\* the posts a card is rendered for (Array.prototype.filter is SelectSeq)
filteredPosts(list, selected) ==
  IF selected = "All" THEN list
  ELSE LET Selected(post) == post.category = selected IN SelectSeq(list, Selected)

\* every card shows its edit and delete buttons
EditMode_Never(post, editing) == FALSE

\* a card shows the edit form, not the edit and delete buttons
EditMode(post, editing) == editing = <<post.id>>

\* saveEdit's posts.map: the posts with the id edited get the form's values
SavedPosts(list, editing, title, body, category) ==
  [i \in 1..Len(list) |->
     IF <<list[i].id>> = editing
     THEN [list[i] EXCEPT !.title = title, !.body = body, !.category = category]
     ELSE list[i]]

\* deletePost's posts.filter: the posts with another id
RemainingPosts(list, id) ==
  LET Other(post) == post.id # id IN SelectSeq(list, Other)

\* what is typed into the edit form
EditTitles == { <<"T">> }
EditBodies == { <<"B">> }
EditCategories == { "Design" }

---------------------------------------------------------------------------
(* State *)

\* a task that serves no request
Idle == [pc |-> "idle", req |-> Request("none", <<>>, NoPayload), value |-> Null]

Init ==
  /\ posts = SeedPosts
  /\ req = Request("none", <<>>, NoPayload)
  /\ res = [status |-> 0, body |-> [none |-> TRUE]]
  /\ via = "none"
  /\ invoked = {}
  /\ created = <<>>
  /\ tasks = [t \in 1..MaxTasks |-> Idle]
  /\ webPosts = InitialPosts
  /\ editingId = null
  /\ editTitle = <<>>
  /\ editBody = <<>>
  /\ editCategory = ""
  /\ filter = "All"
  /\ event = "none"
  /\ clicks = 0

RECURSIVE Reverse(_)
Reverse(q) == IF q = <<>> THEN <<>> ELSE Append(Reverse(Tail(q)), Head(q))

\* getAllPosts over a service that reverses its array in place
getAllPosts_Reversing(throws) ==
  LET svc == IF throws THEN Thrown ELSE Returned(Reverse(posts))
  IN  /\ req' = Request("getPosts", <<>>, NoPayload)
      /\ invoked' = {"getAllPosts"}
      /\ res' = getAllPostsHandler(svc)
      /\ via' = IF svc.threw THEN "exception" ELSE "handler"
      /\ posts' = IF throws THEN posts ELSE Reverse(posts)
      /\ UNCHANGED <<created, tasks, web>>

\* GET /api/v1/posts
getAllPosts(throws) ==
  LET svc == IF throws THEN Thrown ELSE Returned(PostService_getAllPosts(posts))
  IN  /\ req' = Request("getPosts", <<>>, NoPayload)
      /\ invoked' = {"getAllPosts"}
      /\ res' = getAllPostsHandler(svc)
      /\ via' = IF svc.threw THEN "exception" ELSE "handler"
      /\ UNCHANGED <<posts, created, tasks, web>>

\* GET /api/v1/posts/:id
getPostById(segment, throws) ==
  LET params == PathParams(segment) IN
  /\ req' = Request("getPost", segment, NoPayload)
  /\ IF ~params.success
     THEN /\ res' = RequestValidationError(params.issues, <<>>)
          /\ via' = "validation"
          /\ invoked' = {}
     ELSE LET svc == IF throws THEN Thrown
                     ELSE Returned(PostService_getPostById(posts, params.data.id))
          IN  /\ res' = getPostByIdHandler(svc)
              /\ via' = IF svc.threw THEN "exception" ELSE "handler"
              /\ invoked' = {"getPostById"}
  /\ UNCHANGED <<posts, created, tasks, web>>

\* POST /api/v1/posts
createPost(payload, throws) ==
  LET body == CreateBody(payload) IN
  /\ req' = Request("createPost", <<>>, payload)
  /\ UNCHANGED <<tasks, web>>
  /\ IF ~body.success
     THEN /\ res' = RequestValidationError(<<>>, body.issues)
          /\ via' = "validation"
          /\ invoked' = {}
          /\ UNCHANGED <<posts, created>>
     ELSE IF throws
     THEN /\ res' = createPostHandler(Thrown)
          /\ via' = "exception"
          /\ invoked' = {"createPost"}
          /\ UNCHANGED <<posts, created>>
     ELSE LET r == PostService_createPost(posts, body.data) IN
          /\ Len(posts) < MaxPosts
          /\ posts' = r.store
          /\ res' = createPostHandler(Returned(r.newPost))
          /\ via' = "handler"
          /\ invoked' = {"createPost"}
          /\ created' = IF res'.status = 201
                        THEN Append(created, res'.body.data) ELSE created

\* the application as shipped: the methods of PostService do not throw
Next ==
  \/ getAllPosts(FALSE)
  \/ \E segment \in PathSegments : getPostById(segment, FALSE)
  \/ \E payload \in Payloads : createPost(payload, FALSE)

Spec == Init /\ [][Next]_vars

\* the controller around a service whose methods may throw
NextFault ==
  \/ \E throws \in BOOLEAN : getAllPosts(throws)
  \/ \E segment \in PathSegments, throws \in BOOLEAN : getPostById(segment, throws)
  \/ \E payload \in Payloads, throws \in BOOLEAN : createPost(payload, throws)

SpecFault == Init /\ [][NextFault]_vars

---------------------------------------------------------------------------
(* Requests by method and path *)

Hello == <<"H", "e", "l", "l", "o">>
World == <<"W", "o", "r", "l", "d">>

HttpPayloads ==
  { [title |-> Hello, body |-> World], [title |-> World, body |-> Hello],
    [title |-> <<Space>>, body |-> World] }

HttpMethods == {"GET", "POST", "DELETE"}

HttpPaths ==
  { <<PostsSegment>>, PathPrefix, PathPrefix \o <<PostsSegment>>,
    <<PathPrefix[1], PostsSegment>>, <<PathPrefix[2], PostsSegment>> }
    \cup { PathPrefix \o <<PostsSegment, segment>> : segment \in PathSegments }
    \cup { <<PostsSegment, segment>> : segment \in PathSegments }

\* a request no route is bound to: the framework's 404
NoRoute(method, path) ==
  /\ req' = [op |-> "none", segment |-> <<>>, payload |-> NoPayload,
             method |-> method, path |-> path]
  /\ res' = [status |-> 404,
             body |-> [statusCode |-> 404, error |-> "Not Found",
                       message |-> <<"Cannot", method, path>>]]
  /\ via' = "router"
  /\ invoked' = {}
  /\ UNCHANGED <<posts, created, tasks, web>>

\* the server's answer to a request, found by its method and path
Http(method, path, payload) ==
  LET op == Route(method, path) IN
  IF op = "getPosts" THEN getAllPosts(FALSE)
  ELSE IF op = "getPost" THEN getPostById(path[Len(path)], FALSE)
  ELSE IF op = "createPost" THEN createPost(payload, FALSE)
  ELSE NoRoute(method, path)

NextHttp ==
  \E method \in HttpMethods, path \in HttpPaths, payload \in HttpPayloads :
    Http(method, path, payload)

SpecHttp == Init /\ [][NextHttp]_vars

---------------------------------------------------------------------------
(* Requests served at once: a handler runs without interruption up to its *)
(* await of the service call and is resumed later, other requests' steps  *)
(* coming in between                                                       *)

ConcRequests ==
  { Request("getPosts", <<>>, NoPayload),
    Request("getPost", <<"3">>, NoPayload),
    Request("createPost", <<>>, [title |-> <<"a">>, body |-> <<Space, "a">>]),
    Request("createPost", <<>>, [title |-> <<Space>>, body |-> <<"a">>]) }

\* the response to the request of task t is sent
Respond(t, response, how, called) ==
  /\ req' = tasks[t].req
  /\ res' = response
  /\ via' = how
  /\ invoked' = called
  /\ created' = IF response.status = 201
                THEN Append(created, response.body.data) ELSE created
  /\ tasks' = [tasks EXCEPT ![t] = Idle]

\* a request arrives
Accept(t, r) ==
  /\ tasks[t].pc = "idle"
  /\ tasks' = [tasks EXCEPT ![t] = [pc |-> "received", req |-> r, value |-> Null]]
  /\ UNCHANGED <<posts, req, res, via, invoked, created, web>>

\* tsRestHandler validates the request and runs the handler up to its await
Enter(t) ==
  LET r == tasks[t].req
      params == PathParams(r.segment)
      body == CreateBody(r.payload)
      await(v) ==
        /\ tasks' = [tasks EXCEPT ![t] = [pc |-> "awaiting", req |-> r, value |-> v]]
        /\ UNCHANGED <<req, res, via, invoked, created>>
  IN
  /\ tasks[t].pc = "received"
  /\ UNCHANGED web
  /\ IF r.op = "getPosts"
     THEN await(Null) /\ UNCHANGED posts
     ELSE IF r.op = "getPost"
     THEN /\ UNCHANGED posts
          /\ IF ~params.success
             THEN Respond(t, RequestValidationError(params.issues, <<>>),
                          "validation", {})
             ELSE await(PostService_getPostById(posts, params.data.id))
     ELSE IF ~body.success
     THEN /\ UNCHANGED posts
          /\ Respond(t, RequestValidationError(<<>>, body.issues), "validation", {})
     ELSE LET c == PostService_createPost(posts, body.data) IN
          /\ Len(posts) < MaxPosts
          /\ posts' = c.store
          /\ await(c.newPost)

\* the handler is resumed after its await and returns; getAllPosts returned
\* the array held by the service itself, so the body sent is the array as
\* it is by now
Resume(t) ==
  LET r == tasks[t].req IN
  /\ tasks[t].pc = "awaiting"
  /\ UNCHANGED <<posts, web>>
  /\ IF r.op = "getPosts"
     THEN Respond(t, getAllPostsHandler(Returned(PostService_getAllPosts(posts))),
                  "handler", {"getAllPosts"})
     ELSE IF r.op = "getPost"
     THEN Respond(t, getPostByIdHandler(Returned(tasks[t].value)),
                  "handler", {"getPostById"})
     ELSE Respond(t, createPostHandler(Returned(tasks[t].value)),
                  "handler", {"createPost"})

NextConc ==
  \/ \E t \in 1..MaxTasks, r \in ConcRequests : Accept(t, r)
  \/ \E t \in 1..MaxTasks : Enter(t)
  \/ \E t \in 1..MaxTasks : Resume(t)

SpecConc == Init /\ [][NextConc]_vars

---------------------------------------------------------------------------
(* App.tsx: the controls. A control can be used when it is rendered; its   *)
(* handler runs to its end, and the component is rendered anew, before the *)
(* next control is used.                                                   *)

\* the cards rendered
Cards == filteredPosts(webPosts, filter)

\* a control is used
Click(name) ==
  /\ clicks < MaxClicks
  /\ clicks' = clicks + 1
  /\ event' = name
  /\ UNCHANGED api

\* the edit form is rendered on some card
FormRendered == \E k \in 1..Len(Cards) : EditMode(Cards[k], editingId)

\* the Add New Post button
addPost ==
  /\ Click("addPost")
  /\ webPosts' = Append(webPosts, newPost(webPosts))
  /\ UNCHANGED <<editingId, editTitle, editBody, editCategory, filter>>

\* the category select
setFilter(category) ==
  /\ Click("setFilter")
  /\ category \in categories(webPosts)
  /\ filter' = category
  /\ UNCHANGED <<webPosts, editingId, editTitle, editBody, editCategory>>

\* the edit button of the k-th card
startEdit(k) ==
  /\ Click("startEdit")
  /\ k \in 1..Len(Cards)
  /\ ~EditMode(Cards[k], editingId)
  /\ editingId' = <<Cards[k].id>>
  /\ editTitle' = Cards[k].title
  /\ editBody' = Cards[k].body
  /\ editCategory' = Cards[k].category
  /\ UNCHANGED <<webPosts, filter>>

\* the inputs of the edit form
setEditTitle(text) ==
  /\ Click("setEditTitle")
  /\ FormRendered
  /\ editTitle' = text
  /\ UNCHANGED <<webPosts, editingId, editBody, editCategory, filter>>

setEditBody(text) ==
  /\ Click("setEditBody")
  /\ FormRendered
  /\ editBody' = text
  /\ UNCHANGED <<webPosts, editingId, editTitle, editCategory, filter>>

setEditCategory(text) ==
  /\ Click("setEditCategory")
  /\ FormRendered
  /\ editCategory' = text
  /\ UNCHANGED <<webPosts, editingId, editTitle, editBody, filter>>

\* the Save button of the edit form
saveEdit ==
  /\ Click("saveEdit")
  /\ FormRendered
  /\ webPosts' = SavedPosts(webPosts, editingId, editTitle, editBody, editCategory)
  /\ editingId' = null
  /\ UNCHANGED <<editTitle, editBody, editCategory, filter>>

\* the Cancel button of the edit form
cancelEdit ==
  /\ Click("cancelEdit")
  /\ FormRendered
  /\ editingId' = null
  /\ UNCHANGED <<webPosts, editTitle, editBody, editCategory, filter>>

\* the delete button of the k-th card
deletePost(k) ==
  /\ Click("deletePost")
  /\ k \in 1..Len(Cards)
  /\ ~EditMode(Cards[k], editingId)
  /\ webPosts' = RemainingPosts(webPosts, Cards[k].id)
  /\ UNCHANGED <<editingId, editTitle, editBody, editCategory, filter>>

NextWeb ==
  \/ addPost
  \/ \E category \in categories(webPosts) : setFilter(category)
  \/ \E k \in 1..Len(Cards) : startEdit(k)
  \/ \E text \in EditTitles : setEditTitle(text)
  \/ \E text \in EditBodies : setEditBody(text)
  \/ \E text \in EditCategories : setEditCategory(text)
  \/ saveEdit
  \/ cancelEdit
  \/ \E k \in 1..Len(Cards) : deletePost(k)

SpecWeb == Init /\ [][NextWeb]_vars

---------------------------------------------------------------------------
(* Vocabulary of the properties *)

\* the envelope tag of a response body, "" when the body has no status field
Tag(b) == IF "status" \in DOMAIN b THEN b.status ELSE ""

Ids(store) == { store[i].id : i \in 1..Len(store) }

NonBlank(s) == \E k \in 1..Len(s) : s[k] # Space

\* t is s without its leading and trailing white space
IsTrimOf(t, s) ==
  /\ t = <<>> \/ (Head(t) # Space /\ t[Len(t)] # Space)
  /\ \E i \in 0..Len(s) :
       /\ i + Len(t) <= Len(s)
       /\ SubSeq(s, i + 1, i + Len(t)) = t
       /\ \A k \in 1..Len(s) : (k <= i \/ k > i + Len(t)) => s[k] = Space

\* a creation payload whose title and body are non-empty after trimming
ValidPayload(p) ==
  /\ {"title", "body"} \subseteq DOMAIN p
  /\ NonBlank(p.title)
  /\ NonBlank(p.body)

\* a creation payload with an empty or white-space-only title or body
BlankPayload(p) ==
  \/ "title" \in DOMAIN p /\ ~NonBlank(p.title)
  \/ "body" \in DOMAIN p /\ ~NonBlank(p.body)

SeedIds == {1, 2}

---------------------------------------------------------------------------
(* C1 *)

\* C1: every id returned by a successful createPost (a 201) differs from the
\* seed ids and from the id of every earlier 201, and the ids held in the
\* store are pairwise distinct.
C1_IdsDistinct ==
  /\ \A i, j \in 1..Len(posts) : i # j => posts[i].id # posts[j].id
  /\ \A k \in 1..Len(created) :
       /\ created[k].id \notin SeedIds
       /\ \A h \in 1..(k - 1) : created[h].id # created[k].id
  /\ (req.op = "createPost" /\ via = "handler") =>
       /\ res.status = 201
       /\ created # <<>>
       /\ res.body.data = created[Len(created)]

C1_Witness ==
  /\ req.op = "createPost"
  /\ res.status = 201
  /\ Len(created) >= 2

---------------------------------------------------------------------------
(* C2 *)

\* C2: a creation payload whose title and body are non-empty after trimming
\* is answered 201 with tag CREATED, data.title and data.body are the
\* payload's title and body without leading and trailing white space, and
\* the post stored last is that same post.
C2_CreatedIsTrimmedInput ==
  (req.op = "createPost" /\ ValidPayload(req.payload)) =>
    /\ res.status = 201
    /\ CREATED(res.body)
    /\ IsTrimOf(res.body.data.title, req.payload.title)
    /\ IsTrimOf(res.body.data.body, req.payload.body)
    /\ posts[Len(posts)] = res.body.data

C2_Witness ==
  /\ req.op = "createPost"
  /\ ValidPayload(req.payload)
  /\ req.payload.title = <<Space, "a", Space>>
  /\ req.payload.body = <<"a", Space, "b">>
  /\ res.status = 201

---------------------------------------------------------------------------
(* C3 *)

\* C3: a creation payload with an empty or white-space-only title or body is
\* answered 400 with the envelope {status: "BAD_REQUEST", message}, and the
\* store is left as it was (getPosts returns as many posts as before).
C3_BlankRejectedWithEnvelope ==
  [][(req'.op = "createPost" /\ BlankPayload(req'.payload)) =>
       /\ res'.status = 400
       /\ BAD_REQUEST(res'.body)
       /\ Len(PostService_getAllPosts(posts')) = Len(PostService_getAllPosts(posts))]_vars

---------------------------------------------------------------------------
(* C4 *)

\* C4: getPost with a numeric id that no stored post carries is answered
\* 404 with body {status: "NOT_FOUND", message: "Post not found"}, and that
\* response is returned by the handler, not thrown.
C4_AbsentIdIs404 ==
  (/\ req.op = "getPost"
   /\ ~Number(req.segment).nan
   /\ Number(req.segment).value \notin Ids(posts)) =>
    /\ res.status = 404
    /\ res.body = [status |-> "NOT_FOUND", message |-> "Post not found"]
    /\ via = "handler"

C4_Witness ==
  /\ req.op = "getPost"
  /\ req.segment = <<"9", "9", "9">>
  /\ res.status = 404
  /\ created # <<>>

---------------------------------------------------------------------------
(* C5 *)

\* C5: getPost with the id of a stored post is answered 200 with tag OK and
\* that post as data; when the id is one a 201 response carried, the data
\* is exactly the data of that 201 response.
C5_StoredIdIs200 ==
  (/\ req.op = "getPost"
   /\ ~Number(req.segment).nan
   /\ Number(req.segment).value \in Ids(posts)) =>
    /\ res.status = 200
    /\ SUCCESS(res.body)
    /\ \E i \in 1..Len(posts) : posts[i] = res.body.data
    /\ res.body.data.id = Number(req.segment).value
    /\ \A k \in 1..Len(created) :
         created[k].id = Number(req.segment).value => res.body.data = created[k]

C5_Witness ==
  /\ req.op = "getPost"
  /\ Len(created) >= 2
  /\ Number(req.segment).value = created[1].id
  /\ res.status = 200
  /\ res.body.data = created[1]

---------------------------------------------------------------------------
(* C6 *)

\* C6 as stated: getPosts is answered 200 with tag OK and an array whose
\* length is the number of successful createPost calls so far.
C6_LengthIsCreations ==
  req.op = "getPosts" =>
    /\ res.status = 200
    /\ SUCCESS(res.body)
    /\ Len(res.body.data) = Len(created)

\* C6, amended: getPosts is answered 200 with tag OK and an array whose
\* length is two (the seed posts) plus the number of successful createPost
\* calls so far.
C6_LengthIsSeedsPlusCreations ==
  req.op = "getPosts" =>
    /\ res.status = 200
    /\ SUCCESS(res.body)
    /\ Len(res.body.data) = 2 + Len(created)

C6_Witness ==
  /\ req.op = "getPosts"
  /\ res.status = 200
  /\ Len(created) >= 2
  /\ Len(res.body.data) = 4

---------------------------------------------------------------------------
(* C7 *)

\* C7: a getPosts or getPost request leaves the store as it was, and a
\* read that repeats the request served just before it gets the same
\* response.
C7_ReadsLeaveStore ==
  [][req'.op \in {"getPosts", "getPost"} =>
       /\ posts' = posts
       /\ req' = req => res' = res]_vars

C7_Witness ==
  /\ req.op \in {"getPosts", "getPost"}
  /\ res.status = 200
  /\ created # <<>>
  /\ posts = SeedPosts \o created

---------------------------------------------------------------------------
(* C8 *)

TagStatusPairs ==
  { <<"OK", 200>>, <<"CREATED", 201>>, <<"BAD_REQUEST", 400>>,
    <<"NOT_FOUND", 404>>, <<"INTERNAL_SERVER_ERROR", 500>> }

\* C8: the envelope tag and the HTTP status of every response sent form one
\* of the pairs (OK,200), (CREATED,201), (BAD_REQUEST,400), (NOT_FOUND,404),
\* (INTERNAL_SERVER_ERROR,500).
C8_TagMatchesStatus ==
  req.op # "none" => <<Tag(res.body), res.status>> \in TagStatusPairs

---------------------------------------------------------------------------
(* C9 *)

\* C9: every response carries a status its operation declares: 201, 400 or
\* 500 for createPost, 200, 404 or 500 for getPost, 200 or 500 for getPosts.
C9_StatusDeclared ==
  req.op # "none" => res.status \in Responses[req.op]

---------------------------------------------------------------------------
(* C10 *)

\* C10: an exception raised inside a handler is answered 500 with the
\* envelope {status: "INTERNAL_SERVER_ERROR", message}.
C10_ExceptionIsEnvelope ==
  via = "exception" =>
    /\ res.status = 500
    /\ INTERNAL_SERVER_ERROR(res.body)

---------------------------------------------------------------------------
(* C11 *)

\* C11: every response whose status its operation declares has a body that
\* validates against the schema declared for that status, the responses to
\* invalid requests included.
C11_BodyMatchesDeclaredSchema ==
  (req.op # "none" /\ res.status \in Responses[req.op]) =>
    ResponseSchema(req.op, res.status, res.body)

---------------------------------------------------------------------------
(* C12 *)

\* the text is decimal digits with an optional sign, white space around it
\* allowed
NumericText(s) ==
  LET t == trimEnd(trimStart(s))
      d == IF t # <<>> /\ Head(t) \in {"-", "+"} THEN Tail(t) ELSE t
  IN  d # <<>> /\ \A i \in 1..Len(d) : d[i] \in DOMAIN Digit

\* a request whose body or path parameter fails the operation's schema
InvalidRequest(r) ==
  \/ r.op = "createPost" /\ ~ValidPayload(r.payload)
  \/ r.op = "getPost" /\ r.segment \in {<<"a", "b", "c">>, <<"2", "x">>, <<"x">>}

\* C12: while a request that fails its operation's schema is served, no
\* method of PostService is called, and the request is answered with a
\* status of the 400 class.
C12_ValidationBeforeService ==
  InvalidRequest(req) =>
    /\ invoked = {}
    /\ res.status \in 400..499
    /\ via = "validation"

C12_Witness ==
  /\ req.op = "createPost"
  /\ req.payload = [title |-> <<Space>>, body |-> <<"a">>]
  /\ invoked = {}
  /\ res.status = 400
  /\ created # <<>>

---------------------------------------------------------------------------
(* C13 *)

\* C13: a path segment that is the decimal text of n is looked up as the
\* number n (200 with the post whose id is n, or 404 when there is none),
\* and a path segment that is not numeric text fails validation without
\* reaching the lookup.
C13_NumericIdOrRejected ==
  req.op = "getPost" =>
    /\ \A n \in (0..(MaxPosts + 1)) \cup {999} :
         req.segment = ToText(n) =>
           /\ invoked = {"getPostById"}
           /\ n \in Ids(posts) => (res.status = 200 /\ res.body.data.id = n)
           /\ n \notin Ids(posts) => res.status = 404
    /\ ~NumericText(req.segment) =>
         /\ via = "validation"
         /\ invoked = {}

---------------------------------------------------------------------------
(* C14 *)

\* C14: the id of a created post is the one the server computes from the
\* store (the number of posts held once it is added), whether or not the
\* payload carried an id and whatever that id was.
C14_ClientIdIgnored ==
  (req.op = "createPost" /\ res.status = 201) =>
    /\ res.body.data.id = Len(posts)
    /\ posts[Len(posts)].id = Len(posts)
    /\ ("id" \in DOMAIN req.payload /\ req.payload.id # Len(posts)) =>
         res.body.data.id # req.payload.id

C14_Witness ==
  /\ req.op = "createPost"
  /\ res.status = 201
  /\ "id" \in DOMAIN req.payload
  /\ req.payload.id = 1
  /\ res.body.data.id = 4

---------------------------------------------------------------------------
(* C15 *)

\* C15: a creation payload that lacks title or body, or that has a field
\* other than title and body, is rejected by validation and creates no post.
C15_OnlyTitleAndBody ==
  [][(req'.op = "createPost" /\ DOMAIN req'.payload # {"title", "body"}) =>
       /\ via' = "validation"
       /\ res'.status = 400
       /\ posts' = posts]_vars

---------------------------------------------------------------------------
(* C16 *)

ApiV1Posts == << <<"a", "p", "i">>, <<"v", "1">>, <<"p", "o", "s", "t", "s">> >>

HelloWorld3 == [id |-> 3, title |-> Hello, body |-> World]

\* C16: the k-th successful createPost returns id 2 + k; POST /api/v1/posts
\* {title: "Hello", body: "World"} as the first creation is answered 201
\* with data {id: 3, title: "Hello", body: "World"}, GET /api/v1/posts/3
\* after it 200 with the same data, and GET /api/v1/posts/999 is answered
\* 404 with message "Post not found".
C16_Scenario ==
  /\ \A k \in 1..Len(created) : created[k].id = 2 + k
  /\ (/\ req.method = "POST" /\ req.path = ApiV1Posts
      /\ req.payload = [title |-> Hello, body |-> World]
      /\ Len(posts) = 3) =>
       res = [status |-> 201, body |-> [status |-> "CREATED", data |-> HelloWorld3]]
  /\ (/\ req.method = "GET" /\ req.path = ApiV1Posts \o << <<"3">> >>
      /\ created # <<>>
      /\ created[1] = HelloWorld3) =>
       res = [status |-> 200, body |-> [status |-> "OK", data |-> HelloWorld3]]
  /\ (req.method = "GET" /\ req.path = ApiV1Posts \o << <<"9", "9", "9">> >>) =>
       res = [status |-> 404,
              body |-> [status |-> "NOT_FOUND", message |-> "Post not found"]]

C16_Witness ==
  /\ req.method = "GET"
  /\ req.path = ApiV1Posts \o << <<"3">> >>
  /\ created = <<HelloWorld3>>
  /\ res.status = 200
  /\ res.body.data = HelloWorld3

---------------------------------------------------------------------------
(* C17 *)

\* the response is one of the variants its operation declares
DeclaredVariant(op, response) ==
  /\ response.status \in Responses[op]
  /\ ResponseSchema(op, response.status, response.body)

\* C17: a response that is no variant declared for the operation called
\* comes out of the client binding as an outcome of its own kind
\* ("unexpected"), not as the data or the error of the call.
C17_UnexpectedIsDistinct ==
  (req.op # "none" /\ ~DeclaredVariant(req.op, res)) =>
    ClientResult(res).kind = "unexpected"

---------------------------------------------------------------------------
(* C18 *)

\* C18: POST /api/v1/posts is createPost, GET /api/v1/posts is getPosts and
\* GET /api/v1/posts/:id is getPost, and these are the only requests an
\* operation serves: a path without the /api/v1 prefix reaches none.
C18_PrefixOnEveryOperation ==
  /\ req.op = "createPost" <=> (req.method = "POST" /\ req.path = ApiV1Posts)
  /\ req.op = "getPosts" <=> (req.method = "GET" /\ req.path = ApiV1Posts)
  /\ req.op = "getPost" <=>
       /\ req.method = "GET"
       /\ Len(req.path) = 4
       /\ SubSeq(req.path, 1, 3) = ApiV1Posts
  /\ (req.method # "" /\ req.op = "none") => (res.status = 404 /\ invoked = {})

C18_Witness ==
  /\ req.method = "GET"
  /\ req.path = << <<"p", "o", "s", "t", "s">>, <<"3">> >>
  /\ req.op = "none"
  /\ res.status = 404
  /\ Len(posts) = 3

---------------------------------------------------------------------------
(* C19 *)

\* the tasks whose createPost handler has called the service and awaits
Creating == { t \in 1..MaxTasks :
                tasks[t].pc = "awaiting" /\ tasks[t].req.op = "createPost" }

\* C19: with requests served at once in any interleaving, every createPost
\* that reached the service added exactly one post which is still held
\* (none is lost), and no two of them got the same id.
C19_NoLostOrDuplicateCreation ==
  /\ Len(posts) = 2 + Len(created) + Cardinality(Creating)
  /\ \A k \in 1..Len(created) : \E i \in 1..Len(posts) : posts[i] = created[k]
  /\ \A t \in Creating : \E i \in 1..Len(posts) : posts[i] = tasks[t].value
  /\ \A k, h \in 1..Len(created) : k # h => created[k].id # created[h].id
  /\ \A t, u \in Creating : t # u => tasks[t].value.id # tasks[u].value.id
  /\ \A t \in Creating : \A k \in 1..Len(created) :
       tasks[t].value.id # created[k].id
  /\ \A i, j \in 1..Len(posts) : i # j => posts[i].id # posts[j].id

C19_Witness ==
  /\ Cardinality(Creating) = 2
  /\ \E t \in 1..MaxTasks :
       tasks[t].pc = "awaiting" /\ tasks[t].req.op = "createPost"
         /\ tasks[t].value.id = 4

---------------------------------------------------------------------------
(* C20 *)

\* C20: every post held in the store has an integer id and a title and a
\* body that are non-empty and have no leading or trailing white space.
C20_StoredPostsFitSchema ==
  \A i \in 1..Len(posts) :
    /\ posts[i].id \in Int
    /\ posts[i].title # <<>> /\ IsTrimOf(posts[i].title, posts[i].title)
    /\ posts[i].body # <<>> /\ IsTrimOf(posts[i].body, posts[i].body)

C20_Witness ==
  /\ Len(posts) = 4
  /\ req.op = "createPost"
  /\ req.payload.title = <<Space, "a", Space>>
  /\ posts[4].title = <<"a">>

---------------------------------------------------------------------------
(* C21 *)

\* the entry of a validation error for a field and a message
FieldError(name, message) == [path |-> <<name>>, message |-> message]

\* the fields of a creation payload that fail the schema
FailingFields(p) ==
  { f \in {"title", "body"} : f \notin DOMAIN p \/ ~NonBlank(p[f]) }

\* C21: a creation payload rejected by validation is answered with a list of
\* field-level errors, one entry per failing field, each with the field's
\* path and a message: an empty or white-space-only title gives the entry
\* (title, "Title is required"), an empty or white-space-only body the entry
\* (body, "Body is required"), and when both fail both entries are there.
C21_FieldErrors ==
  (req.op = "createPost" /\ via = "validation") =>
    LET errors == res.body.bodyResult
        p == req.payload
        Has(e) == \E k \in 1..Len(errors) : errors[k] = e
    IN  /\ res.status = 400
        /\ Len(errors) = Cardinality(FailingFields(p))
        /\ \A k \in 1..Len(errors) :
             /\ DOMAIN errors[k] = {"path", "message"}
             /\ \E f \in FailingFields(p) : errors[k].path = <<f>>
        /\ \A f \in FailingFields(p) :
             \E k \in 1..Len(errors) : errors[k].path = <<f>>
        /\ ("title" \in DOMAIN p /\ ~NonBlank(p.title)) =>
             Has(FieldError("title", "Title is required"))
        /\ ("body" \in DOMAIN p /\ ~NonBlank(p.body)) =>
             Has(FieldError("body", "Body is required"))

C21_Witness ==
  /\ req.op = "createPost"
  /\ via = "validation"
  /\ req.payload = [title |-> <<Space, Space>>, body |-> <<>>]
  /\ Len(res.body.bodyResult) = 2

---------------------------------------------------------------------------
(* C22 *)

\* C22: the post at position i of the store has id i, so the ids held are
\* exactly 1..n for n stored posts, and the id createPost assigns next,
\* posts.length + 1, is greater than every id held.
C22_IdsArePositions ==
  /\ \A i \in 1..Len(posts) : posts[i].id = i
  /\ Ids(posts) = 1..Len(posts)
  /\ \A i \in 1..Len(posts) : NewId(posts) > posts[i].id
  /\ (req.op = "createPost" /\ res.status = 201) =>
       /\ res.body.data.id = Len(posts)
       /\ \A i \in 1..(Len(posts) - 1) : res.body.data.id > posts[i].id

C22_Witness ==
  /\ req.op = "createPost"
  /\ res.status = 201
  /\ res.body.data.id = MaxPosts
  /\ Len(posts) = MaxPosts
  /\ "id" \in DOMAIN req.payload
  /\ req.payload.id = 9

---------------------------------------------------------------------------
(* C23 *)

\* the ids a getPost request can ask for
LookupIds == 0..(MaxPosts + 1)

\* C23: the store is append-only. No step removes a post or changes the id,
\* title or body of a post held; the number of posts never decreases; only
\* createPost changes the store, and only by appending one post at its end.
\* So a post found under an id is found under it, unchanged, after every
\* step, and a 200 of getPost carries the post the store holds under the id.
C23_AppendOnly ==
  [][ /\ Len(posts') >= Len(posts)
      /\ SubSeq(posts', 1, Len(posts)) = posts
      /\ posts' # posts =>
           /\ req'.op = "createPost"
           /\ res'.status = 201
           /\ Len(posts') = Len(posts) + 1
           /\ posts' = Append(posts, res'.body.data)
      /\ \A id \in LookupIds :
           PostService_getPostById(posts, id) # Null =>
             PostService_getPostById(posts', id) = PostService_getPostById(posts, id)
      /\ (req'.op = "getPost" /\ res'.status = 200) =>
           res'.body.data =
             PostService_getPostById(posts', Number(req'.segment).value)
    ]_vars

C23_Witness ==
  /\ req.op = "getPost"
  /\ res.status = 200
  /\ res.body.data.id = 3
  /\ Len(posts) = MaxPosts

---------------------------------------------------------------------------
(* C24 *)

\* C24: getPosts returns the posts in creation order: the seed posts with
\* ids 1 and 2 first, then the created posts in the order their createPost
\* calls were applied, each post held exactly once.
C24_CreationOrder ==
  /\ posts = SeedPosts \o created
  /\ (req.op = "getPosts" /\ res.status = 200) =>
       /\ res.body.data = SeedPosts \o created
       /\ res.body.data[1].id = 1
       /\ res.body.data[2].id = 2
       /\ Len(res.body.data) = Len(posts)
       /\ \A i \in 1..Len(posts) : res.body.data[i] = posts[i]

C24_Witness ==
  /\ req.op = "getPosts"
  /\ res.status = 200
  /\ Len(created) = 2
  /\ created[1].title # created[2].title
  /\ res.body.data = SeedPosts \o created

---------------------------------------------------------------------------
(* C25 *)

\* C25: in the web application's list of posts, after any sequence of
\* addPost, deletePost and saveEdit from the five initial posts, the ids of
\* the posts are pairwise distinct, addPost giving the id length + 1.
C25_WebIdsDistinct ==
  \A i, j \in 1..Len(webPosts) : i # j => webPosts[i].id # webPosts[j].id

---------------------------------------------------------------------------
(* C26 *)

\* the post at position i is the one saveEdit writes the form into, and
\* every other post is left as it was
SavedOnlyAt(i) ==
  /\ <<webPosts[i].id>> = editingId
  /\ webPosts'[i] = [webPosts[i] EXCEPT !.title = editTitle,
                                        !.body = editBody,
                                        !.category = editCategory]
  /\ \A j \in (1..Len(webPosts)) \ {i} : webPosts'[j] = webPosts[j]

\* C26: saveEdit replaces the title, body and category of the one post
\* being edited with the values of the edit form and leaves every other
\* post, the length and order of the list and every id and date as they
\* were, then resets editingId to null; Cancel resets editingId to null and
\* leaves the list as it was.
C26_SaveEditFrame ==
  [][ /\ event' = "saveEdit" =>
           /\ Len(webPosts') = Len(webPosts)
           /\ \A j \in 1..Len(webPosts) :
                /\ webPosts'[j].id = webPosts[j].id
                /\ webPosts'[j].date = webPosts[j].date
           /\ \E i \in 1..Len(webPosts) : SavedOnlyAt(i)
           /\ editingId' = null
      /\ event' = "cancelEdit" =>
           /\ editingId' = null
           /\ webPosts' = webPosts
    ]_vars

---------------------------------------------------------------------------
(* C27 *)

\* C27: under every sequence of controls the rendering allows (edit and
\* delete on cards not in edit mode, Save and Cancel on a card in edit
\* mode), whenever editingId is not null the list holds a post with that id.
C27_EditedPostExists ==
  editingId # null =>
    \E i \in 1..Len(webPosts) : <<webPosts[i].id>> = editingId

C27_Witness ==
  /\ editingId = <<5>>
  /\ event = "deletePost"
  /\ Len(webPosts) = 2
  /\ webPosts[1].id = 5
  /\ webPosts[2].id = 5

============================================================================
